---------------------------- MODULE Spec2Model ----------------------------
(***************************************************************************)
(* The two-coin EM example of src/ch4/ch4_notes.ipynb.                     *)
(*                                                                         *)
(* The notebook computes with Python 2 floats.  The model computes each    *)
(* of +, -, * and / as an IEEE double does: the exact result over          *)
(* arbitrary-precision naturals, then rounded to the nearest double,       *)
(* subnormal, 0.0 or inf.  ** is the C library's pow, whose last bit       *)
(* depends on the library: the model takes both doubles that enclose the   *)
(* exact power as its possible results.  round(lk_A/t, 3) is decided on    *)
(* the exact value of the float quotient; a value the notebook rounds to   *)
(* three decimals is held as an integer number of thousandths, which       *)
(* stands for the double nearest to it.  The expected counts are float     *)
(* products, their sums add the rows in order, and the M step, which the   *)
(* notebook gives as formulas, is the float quotient of these sums.        *)
(*                                                                         *)
(* The notebook writes the trial count as the literal 10, which the model  *)
(* carries as n.  Its table of five rows is kept as it is: shorter data    *)
(* leave rows of zeros, a sixth observation is out of bounds.  The model   *)
(* starts, among others, from the notebook's own data, n and parameters.   *)
(***************************************************************************)
EXTENDS Integers, Sequences, FiniteSets

---------------------------------------------------------------------------
(* Arbitrary-precision naturals: little-endian sequences of digits in      *)
(* base Base, without leading zeros; <<>> is zero.  They stand for the     *)
(* magnitudes Python's arithmetic handles, which exceed TLC's integers.    *)
(* A digit holds DigitBits bits, so that the bits of a float's mantissa    *)
(* can be counted and moved.                                               *)

DigitBits == 15

Base == 2^DigitBits

Max(a, b) == IF a >= b THEN a ELSE b

Min(a, b) == IF a <= b THEN a ELSE b

RECURSIVE BigOf(_)
BigOf(k) == IF k = 0 THEN <<>> ELSE <<k % Base>> \o BigOf(k \div Base)

\* the digit of weight Base^(i-1), 0 above the top digit
Digit(a, i) == IF i <= Len(a) THEN a[i] ELSE 0

\* a without the zeros above its top digit
BigTrim(a) ==
    LET nz == {i \in 1..Len(a) : a[i] # 0}
    IN  IF a = <<>> \/ a[Len(a)] # 0 THEN a
        ELSE IF nz = {} THEN <<>>
        ELSE SubSeq(a, 1, CHOOSE m \in nz : \A i \in nz : i <= m)

\* the value of at most two digits, which TLC's integers hold
SmallInt(a) == Digit(a, 1) + Base * Digit(a, 2)

\* The natural whose digit sums are s, each below 2 * Base and the top one
\* 0.  A carry enters digit i when the sum below overflows, or is full and
\* some lower sum j overflows with every sum between them full.
BigCarry(s) ==
    LET Carry(i) ==
            /\ i > 1
            /\ \/ s[i - 1] >= Base
               \/ /\ s[i - 1] = Base - 1
                  /\ \E j \in 1..(i - 2) :
                        /\ s[j] >= Base
                        /\ \A k \in (j + 1)..(i - 2) : s[k] = Base - 1
    IN  BigTrim(SubSeq([i \in 1..Len(s) |->
                           (s[i] + (IF Carry(i) THEN 1 ELSE 0)) % Base],
                       1, Len(s)))

\* a + b
BigAdd(a, b) ==
    LET top == (IF Len(a) > Len(b) THEN Len(a) ELSE Len(b)) + 1
    IN  IF top <= 3 THEN BigOf(SmallInt(a) + SmallInt(b))
        ELSE BigCarry(SubSeq([i \in 1..top |-> Digit(a, i) + Digit(b, i)],
                             1, top))

\* -1, 0 or 1 as a < b, a = b or a > b
BigCmp(a, b) ==
    IF Len(a) <= 2 /\ Len(b) <= 2
    THEN (IF SmallInt(a) < SmallInt(b) THEN -1
          ELSE IF SmallInt(a) > SmallInt(b) THEN 1 ELSE 0)
    ELSE IF Len(a) < Len(b) THEN -1
    ELSE IF Len(a) > Len(b) THEN 1
    ELSE LET diff == {i \in 1..Len(a) : a[i] # b[i]}
         IN  IF diff = {} THEN 0
             ELSE LET m == CHOOSE i \in diff : \A j \in diff : j <= i
                  IN  IF a[m] < b[m] THEN -1 ELSE 1

\* a - b for a >= b.  Digit i lends when the digit below falls short, or
\* is level and some lower digit j falls short with every digit between
\* them level.
BigSub(a, b) ==
    LET d == SubSeq([i \in 1..Len(a) |-> a[i] - Digit(b, i)], 1, Len(a))
        Borrow(i) ==
            /\ i > 1
            /\ \/ d[i - 1] < 0
               \/ /\ d[i - 1] = 0
                  /\ \E j \in 1..(i - 2) :
                        /\ d[j] < 0
                        /\ \A k \in (j + 1)..(i - 2) : d[k] = 0
    IN  IF Len(a) <= 2 THEN BigOf(SmallInt(a) - SmallInt(b))
        ELSE IF b = <<>> THEN a
        ELSE BigTrim(SubSeq([i \in 1..Len(a) |->
                                (d[i] - (IF Borrow(i) THEN 1 ELSE 0) + Base)
                                    % Base],
                            1, Len(a)))

\* a * k for a digit k (0 <= k < Base): the low half of each digit product
\* plus the high half of the one below
BigMulDigit(a, k) ==
    IF Len(a) <= 1 THEN BigOf(SmallInt(a) * k)
    ELSE IF k = 0 THEN <<>>
    ELSE BigCarry(SubSeq([i \in 1..(Len(a) + 1) |->
                             ((Digit(a, i) * k) % Base)
                               + (IF i = 1 THEN 0 ELSE (a[i - 1] * k) \div Base)],
                         1, Len(a) + 1))

\* a * Base^h
BigShift(a, h) ==
    IF a = <<>> THEN a ELSE [i \in 1..h |-> 0] \o a

\* a * b, by halves of a
RECURSIVE BigMul(_, _)
BigMul(a, b) ==
    IF a = <<>> \/ b = <<>> THEN <<>>
    ELSE IF Len(a) = 1 THEN BigMulDigit(b, a[1])
    ELSE LET h == Len(a) \div 2
         IN  BigAdd(BigMul(SubSeq(a, 1, h), b),
                    BigShift(BigMul(SubSeq(a, h + 1, Len(a)), b), h))

\* the number of bits of a digit d: 0 for 0, b for 2^(b-1) <= d < 2^b
BitLenDigit(d) ==
    IF d = 0 THEN 0
    ELSE CHOOSE b \in 1..DigitBits : 2^(b - 1) <= d /\ d < 2^b

\* the number of bits of a
BitLen(a) ==
    IF a = <<>> THEN 0
    ELSE DigitBits * (Len(a) - 1) + BitLenDigit(a[Len(a)])

\* bit k of a, bit 0 the lowest
Bit(a, k) == (Digit(a, (k \div DigitBits) + 1) \div 2^(k % DigitBits)) % 2

\* the k lowest bits of a are zeros
LowBitsZero(a, k) ==
    /\ \A i \in 1..(k \div DigitBits) : Digit(a, i) = 0
    /\ Digit(a, (k \div DigitBits) + 1) % 2^(k % DigitBits) = 0

\* a * 2^k
BigShl(a, k) == BigShift(BigMulDigit(a, 2^(k % DigitBits)), k \div DigitBits)

\* a \div 2^k
BigShr(a, k) ==
    LET q == k \div DigitBits
        r == k % DigitBits
    IN  IF q >= Len(a) THEN <<>>
        ELSE BigTrim(SubSeq([i \in 1..Len(a) |->
                                (Digit(a, q + i) \div 2^r)
                                  + (Digit(a, q + i + 1) % 2^r) * 2^(DigitBits - r)],
                            1, Len(a) - q))

\* the number of zero bits below the lowest one bit of a > 0
TrailingZeros(a) ==
    LET i == CHOOSE j \in 1..Len(a) : a[j] # 0 /\ \A h \in 1..(j - 1) : a[h] = 0
    IN  DigitBits * (i - 1)
          + (CHOOSE b \in 0..(DigitBits - 1) :
                a[i] % 2^b = 0 /\ (a[i] \div 2^b) % 2 = 1)

\* r * Base + d, for a digit d
BigPush(r, d) == IF r = <<>> /\ d = 0 THEN <<>> ELSE <<d>> \o r

\* <<g, r - p>> for the largest digit g with p = g * b at most r, counting
\* down from a digit g that is not too small
RECURSIVE BigFit(_, _, _, _)
BigFit(r, b, g, p) ==
    IF BigCmp(p, r) <= 0 THEN <<g, BigSub(r, p)>>
    ELSE BigFit(r, b, g - 1, BigSub(p, b))

\* <<q, r - q * b>> for the digit q = r \div b, where b's top digit is at
\* least Base \div 2 and r < b * Base.  The two top digits of r over the top
\* digit of b give q or up to 2 more.
BigDivDigit(r, b) ==
    CHOOSE qr \in
        UNION {{BigFit(r, b, g, p) : p \in {BigMulDigit(b, g)}} :
               g \in {Min(Base - 1,
                          (Digit(r, Len(b) + 1) * Base + Digit(r, Len(b)))
                              \div b[Len(b)])}} : TRUE

\* Long division of a by b, b's top digit at least Base \div 2: the digits
\* of a from digit j down are brought into the remainder r one by one, each
\* giving a digit of the quotient q.  <<quotient, remainder>> at the end.
RECURSIVE BigDivFrom(_, _, _, _, _)
BigDivFrom(a, b, j, r, q) ==
    IF j = 0 THEN <<BigTrim(q), r>>
    ELSE CHOOSE res \in
            {BigDivFrom(a, b, j - 1, qr[2], <<qr[1]>> \o q) :
             qr \in {BigDivDigit(BigPush(r, a[j]), b)}} : TRUE

\* <<a \div b, a % b = 0>> for b > 0: a and b are first multiplied by the
\* power of two that fills b's top digit
BigDiv(a, b) ==
    CHOOSE res \in
        UNION {{IF Len(az) < Len(bz) THEN <<<<>>, a = <<>>>>
                ELSE CHOOSE qe \in
                        {<<qr[1], qr[2] = <<>>>> :
                         qr \in {BigDivFrom(az, bz, Len(az) - Len(bz) + 1,
                                            SubSeq(az, Len(az) - Len(bz) + 2,
                                                   Len(az)),
                                            <<>>)}} : TRUE :
                az \in {BigShl(a, z)}, bz \in {BigShl(b, z)}} :
               z \in {DigitBits - BitLenDigit(b[Len(b)])}} : TRUE

\* <<quotient, remainder>> of a by b, for b > 0 and a < 10 * b
RECURSIVE BigDivSmall(_, _, _)
BigDivSmall(a, b, q) ==
    IF Len(a) <= 2 /\ Len(b) <= 2
    THEN <<q + (SmallInt(a) \div SmallInt(b)), BigOf(SmallInt(a) % SmallInt(b))>>
    ELSE IF BigCmp(a, b) < 0 THEN <<q, a>>
    ELSE BigDivSmall(BigSub(a, b), b, q + 1)


---------------------------------------------------------------------------
(* Non-negative rationals [num, den] over the naturals above.              *)

Zero == <<>>

RatOf(p, q) == [num |-> BigOf(p), den |-> BigOf(q)]

\* -1, 0, 1 as a < b, a = b, a > b
RatCmp(a, b) == BigCmp(BigMul(a.num, b.den), BigMul(b.num, a.den))

\* |a - b|
RatAbsDiff(a, b) ==
    LET x == BigMul(a.num, b.den)
        y == BigMul(b.num, a.den)
    IN  [num |-> IF BigCmp(x, y) >= 0 THEN BigSub(x, y) ELSE BigSub(y, x),
         den |-> BigMul(a.den, b.den)]

\* a ^ e, an even power as the square of the half power, which h \in {...}
\* names so that it is computed once
RECURSIVE BigPow(_, _)
BigPow(a, e) ==
    IF e = 0 THEN <<1>>
    ELSE IF e % 2 = 1 THEN BigMul(a, BigPow(a, e - 1))
    ELSE CHOOSE p \in {BigMul(h, h) : h \in {BigPow(a, e \div 2)}} : TRUE

---------------------------------------------------------------------------
(* Python floats.  A float is an IEEE double: a sign and a mantissa of at  *)
(* most FloatBits bits times a power of two that is at least               *)
(* 2^FloatMinExp, below 2^FloatMaxExp.  +, -, * and / give the double      *)
(* nearest to the exact result, a tie going to the even mantissa; a        *)
(* result at or above 2^FloatMaxExp - 2^(FloatMaxExp - FloatBits - 1) is   *)
(* inf.  A finite float is m * 2^x with m odd, or m = 0 and x = 0 for a    *)
(* zero; neg tells that the sign is minus, which 0.0 can carry too.        *)

FloatBits == 53

FloatMinExp == 0 - 1074

FloatMaxExp == 1024

Finite(m, x) == [cls |-> "finite", neg |-> FALSE, m |-> m, x |-> x]

FloatZero == Finite(Zero, 0)

FloatOne == Finite(<<1>>, 0)

FloatInf == [cls |-> "inf", neg |-> FALSE, m |-> Zero, x |-> 0]

FloatNaN == [cls |-> "nan", neg |-> FALSE, m |-> Zero, x |-> 0]

IsZero(f) == f.cls = "finite" /\ f.m = Zero

\* f with the sign s; nan carries none
Signed(s, f) == IF f.cls = "nan" THEN f ELSE [f EXCEPT !.neg = s]

\* -f
FloatNeg(f) == Signed(~f.neg, f)

\* (m + f) / 2^sh to the nearest integer, a tie to the even one, for
\* sh >= 1 and a fraction 0 <= f < 1 that is not 0 iff sticky
RoundShift(m, sticky, sh) ==
    CHOOSE r \in
        {IF /\ Bit(m, sh - 1) = 1
            /\ \/ sticky
               \/ ~LowBitsZero(m, sh - 1)
               \/ Bit(m, sh) = 1
         THEN BigAdd(fl, <<1>>)
         ELSE fl :
         fl \in {BigShr(m, sh)}} : TRUE

\* (m + f) / 2^sh to the integer below it, or to the one above it if up
\* and the value is none itself, for sh, f and sticky as in RoundShift
DirectedShift(m, sticky, sh, up) ==
    CHOOSE r \in
        {IF up /\ (sticky \/ ~LowBitsZero(m, sh)) THEN BigAdd(fl, <<1>>)
         ELSE fl :
         fl \in {BigShr(m, sh)}} : TRUE

\* the finite float m * 2^x, for m of at most FloatBits bits
Normal(m, x) ==
    IF m = Zero THEN FloatZero
    ELSE CHOOSE f \in {Finite(BigShr(m, z), x + z) : z \in {TrailingZeros(m)}} :
             TRUE

\* the number of low bits that (m + f) * 2^x has beyond a double's
\* mantissa, or below 2^FloatMinExp
ExcessBits(m, x) == Max(0, Max(BitLen(m) - FloatBits, FloatMinExp - x))

\* The double of mantissa r and exponent x: inf from 2^FloatMaxExp on
Double(r, x) ==
    IF r = Zero THEN FloatZero
    ELSE IF BitLen(r) + x > FloatMaxExp THEN FloatInf
    ELSE Normal(r, x)

\* The double nearest to (m + f) * 2^x, with f as in RoundShift.  The sh
\* bits of m beyond FloatBits, or below 2^FloatMinExp, are rounded off; a
\* caller with a fraction f brings at least one such bit.
FloatRound(m, x, sticky) ==
    CHOOSE f \in
        UNION {{Double(r, x + sh) :
                r \in {IF sh = 0 THEN m ELSE RoundShift(m, sticky, sh)}} :
               sh \in {ExcessBits(m, x)}} :
        TRUE

\* The double next below (m + f) * 2^x, or next above it if up; the value
\* itself if it is a double.  Above the largest double comes inf.
FloatToward(m, x, sticky, up) ==
    CHOOSE f \in
        UNION {{Double(r, x + sh) :
                r \in {IF sh = 0 THEN m ELSE DirectedShift(m, sticky, sh, up)}} :
               sh \in {ExcessBits(m, x)}} :
        TRUE

\* <<q, exact>>: the quotient a / b for a, b > 0 taken to FloatBits + 3 or
\* FloatBits + 4 bits, as q[1] * 2^(0 - q[3]), and whether nothing is left
QuotBits(a, b) ==
    CHOOSE q \in
        UNION {{<<qe[1], qe[2], t>> :
                qe \in {BigDiv(IF t >= 0 THEN BigShl(a, t) ELSE a,
                               IF t >= 0 THEN b ELSE BigShl(b, 0 - t))}} :
               t \in {FloatBits + 3 - (BitLen(a) - BitLen(b))}} : TRUE

\* The double nearest to (a / b) * 2^x for b > 0
FloatQuot(a, b, x) ==
    IF a = Zero THEN FloatZero
    ELSE CHOOSE f \in {FloatRound(q[1], x - q[3], ~q[2]) :
                        q \in {QuotBits(a, b)}} : TRUE

\* the float nearest to the rational r: a literal such as 0.6, or float(r)
FloatOf(r) == FloatQuot(r.num, r.den, 0)

\* float(k) of an int k
FloatOfInt(k) ==
    Signed(k < 0, FloatRound(BigOf(IF k < 0 THEN 0 - k ELSE k), 0, FALSE))

\* the exact magnitude of a finite float, as a rational
FloatRat(f) ==
    IF f.x >= 0 THEN [num |-> BigShl(f.m, f.x), den |-> <<1>>]
    ELSE [num |-> f.m, den |-> BigShl(<<1>>, 0 - f.x)]

\* a * b, which overflows to inf
FloatMul(a, b) ==
    IF a.cls = "nan" \/ b.cls = "nan" THEN FloatNaN
    ELSE IF a.cls = "inf" \/ b.cls = "inf"
    THEN IF IsZero(a) \/ IsZero(b) THEN FloatNaN
         ELSE Signed(a.neg # b.neg, FloatInf)
    ELSE CHOOSE f \in {Signed(a.neg # b.neg, FloatRound(p, a.x + b.x, FALSE)) :
                        p \in {BigMul(a.m, b.m)}} : TRUE

\* a + b for finite a and b of one sign, which overflows to inf
SameSignAdd(a, b) ==
    IF a.m = Zero THEN b
    ELSE IF b.m = Zero THEN a
    ELSE CHOOSE f \in
            UNION {{Signed(a.neg, FloatRound(s, x, FALSE)) :
                    s \in {BigAdd(BigShl(a.m, a.x - x), BigShl(b.m, b.x - x))}} :
                   x \in {Min(a.x, b.x)}} : TRUE

\* a + b for finite a and b of opposite signs: the difference of the
\* magnitudes with the sign of the larger one, 0.0 when they are equal
OppositeSignAdd(a, b) ==
    IF a.m = Zero THEN (IF b.m = Zero THEN FloatZero ELSE b)
    ELSE IF b.m = Zero THEN a
    ELSE CHOOSE f \in
            UNION {UNION {{IF c = 0 THEN FloatZero
                           ELSE IF c > 0
                           THEN Signed(a.neg, FloatRound(BigSub(u, v), x, FALSE))
                           ELSE Signed(b.neg, FloatRound(BigSub(v, u), x, FALSE)) :
                           c \in {BigCmp(u, v)}} :
                          u \in {BigShl(a.m, a.x - x)},
                          v \in {BigShl(b.m, b.x - x)}} :
                   x \in {Min(a.x, b.x)}} : TRUE

\* a + b
FloatAdd(a, b) ==
    IF a.cls = "nan" \/ b.cls = "nan" THEN FloatNaN
    ELSE IF a.cls = "inf"
    THEN IF b.cls = "inf" /\ a.neg # b.neg THEN FloatNaN ELSE a
    ELSE IF b.cls = "inf" THEN b
    ELSE IF a.neg = b.neg THEN SameSignAdd(a, b)
    ELSE OppositeSignAdd(a, b)

\* a - b
FloatSub(a, b) == FloatAdd(a, FloatNeg(b))

\* a / b for b # 0.0
FloatDiv(a, b) ==
    IF a.cls = "nan" \/ b.cls = "nan" THEN FloatNaN
    ELSE IF a.cls = "inf"
    THEN IF b.cls = "inf" THEN FloatNaN ELSE Signed(a.neg # b.neg, FloatInf)
    ELSE IF b.cls = "inf" THEN Signed(a.neg # b.neg, FloatZero)
    ELSE Signed(a.neg # b.neg, FloatQuot(a.m, b.m, a.x - b.x))

\* 1 - a
FloatOneMinus(a) == FloatSub(FloatOne, a)

\* Python's a ** e on a finite float a >= 0 and an int e, but for what it
\* raises: the values pow of the C library can give.  a ** 0 is 1.0.  The
\* library's last bit is not fixed: pow gives the exact power if that is a
\* double, else the double next below it or the one next above it, so 0.0
\* or the smallest double for a power below it, the largest double or inf
\* for one above it.
FloatPow(a, e) ==
    IF e = 0 THEN {FloatOne}
    ELSE IF IsZero(a) THEN {FloatZero}
    ELSE UNION {IF e > 0
                THEN {FloatToward(p, a.x * e, FALSE, up) : up \in BOOLEAN}
                ELSE UNION {{FloatToward(q[1], a.x * e - q[3], ~q[2], up) :
                             up \in BOOLEAN} :
                            q \in {QuotBits(<<1>>, p)}} :
                p \in {BigPow(a.m, IF e > 0 THEN e ELSE 0 - e)}}

\* a ** e as the cell meets it, each outcome pow allows: err is what it
\* raises, "none" if nothing, ZeroDivisionError for 0.0 raised to a
\* negative power, OverflowError for a result out of range; val is its
\* value
Pow(a, e) ==
    IF e < 0 /\ IsZero(a) THEN {[err |-> "ZeroDivisionError", val |-> FloatNaN]}
    ELSE {[err |-> IF f.cls = "inf" THEN "OverflowError" ELSE "none",
           val |-> f] : f \in FloatPow(a, e)}

\* Python 2 round(x, ndigits) of x >= 0, as an integer number of units of
\* 10^-ndigits: to the nearest, an exact half away from zero.  Each digit's
\* <<quotient, remainder>> d is computed before the next digit is taken.
RECURSIVE RoundFrom(_, _, _, _)
RoundFrom(rem, den, q, k) ==
    IF k = 0
    THEN IF BigCmp(BigAdd(rem, rem), den) >= 0 THEN q + 1 ELSE q
    ELSE CHOOSE r \in {RoundFrom(d[2], den, 10 * q + d[1], k - 1) :
                        d \in {BigDivSmall(BigMulDigit(rem, 10), den, 0)}} :
             TRUE

\* round that drops the digits after ndigits instead of rounding
round_truncate(x, ndigits) ==
    LET RECURSIVE Digits(_, _, _)
        Digits(rem, q, k) ==
            IF k = 0 THEN q
            ELSE CHOOSE r \in {Digits(e[2], 10 * q + e[1], k - 1) :
                                e \in {BigDivSmall(BigMulDigit(rem, 10),
                                                    x.den, 0)}} : TRUE
    IN  CHOOSE r \in {Digits(d[2], d[1], ndigits) :
                       d \in {BigDivSmall(x.num, x.den, 0)}} : TRUE

\* x < 10 here: the notebook rounds quotients lk/t in [0,1] and parameters
round(x, ndigits) ==
    CHOOSE r \in {RoundFrom(d[2], x.den, d[1], ndigits) :
                   d \in {BigDivSmall(x.num, x.den, 0)}} : TRUE

---------------------------------------------------------------------------
(* The notebook's computations.                                            *)

\* def compute_joint_pr(x, theta, n=10): return theta**x * (1-theta)**(n-x)
\* as a call meets it, each outcome the two ** allow: err is what it
\* raises, "none" if nothing, theta**x being evaluated first; val is what
\* it returns
compute_joint_pr_call(x, theta, n) ==
    UNION {IF p.err # "none" THEN {p}
           ELSE UNION {{IF q.err # "none" THEN q
                        ELSE [err |-> "none", val |-> FloatMul(p.val, q.val)] :
                        q \in Pow(om, n - x)} :
                       om \in {FloatOneMinus(theta)}} :
           p \in Pow(theta, x)}

\* what the call can raise, "none" among them if it can return
compute_joint_pr_error(x, theta, n) ==
    {o.err : o \in compute_joint_pr_call(x, theta, n)}

\* what the call can return
compute_joint_pr(x, theta, n) ==
    {o.val : o \in {c \in compute_joint_pr_call(x, theta, n) : c.err = "none"}}

\* round(lk_A/t, 3): the notebook keeps three decimals, so a rounded value
\* is held as a number of thousandths
NDigits == 3

Unit == 10^NDigits

\* round(nan, 3), which is nan: held as -1, which no rounded quotient of
\* two floats without sign is
NaN == 0 - 1

\* jps = np.zeros((5, 4)): the table has five rows whatever len(data) is
Rows == 5

\* a row of zeros, which the loop has not touched
ZeroRow == [draw |-> 0, heads |-> 0, lk_A |-> 0, lk_B |-> 0]

\* round(lk/t, 3) in thousandths: the float quotient, then round on the
\* exact value of that float
Responsibility(lk, t) ==
    CHOOSE r \in
        {IF q.cls = "nan" THEN NaN
         ELSE CHOOSE k \in {round(v, NDigits) : v \in {FloatRat(q)}} : TRUE :
         q \in {FloatDiv(lk, t)}} : TRUE

\* t = lk_A + lk_B and the two rounded quotients of the loop body, from
\* what the two calls of compute_joint_pr gave
WeightsOf(a, b) ==
    IF a.err # "none"
    THEN [err |-> a.err, zero |-> FALSE, lk_A |-> 0, lk_B |-> 0]
    ELSE IF b.err # "none"
    THEN [err |-> b.err, zero |-> FALSE, lk_A |-> 0, lk_B |-> 0]
    ELSE CHOOSE w \in
            {IF IsZero(t)
             THEN [err |-> "none", zero |-> TRUE, lk_A |-> 0, lk_B |-> 0]
             ELSE [err  |-> "none",
                   zero |-> FALSE,
                   lk_A |-> Responsibility(a.val, t),
                   lk_B |-> Responsibility(b.val, t)] :
             t \in {FloatAdd(a.val, b.val)}} : TRUE

\* What the body of the E step's loop computes from an observation alone,
\* whatever the row it writes to, each outcome the calls allow: lk_A, lk_B
\* and t, and the values of round(lk_A/t, 3) and round(lk_B/t, 3) in
\* thousandths.  err is what compute_joint_pr raises, "none" if nothing;
\* zero tells that t is 0.0, so that the divisions raise.
Weights(heads, thA, thB, n) ==
    UNION {{WeightsOf(a, b) : a \in lk[1], b \in lk[2]} :
           lk \in {<<compute_joint_pr_call(heads, thA, n),
                     compute_joint_pr_call(heads, thB, n)>>}}

\* The body of the E step's loop for observation i with the values w it
\* computes, in the order of its lines: lk_A, lk_B, t, then
\* jps[i, 0] = i+1, which is out of bounds from the sixth observation on,
\* jps[i, 1] = heads, then the divisions lk_A/t and lk_B/t, which raise
\* when t is 0.0.  err is what the body raises, "none" if nothing; row is
\* row i of jps after it: a row of Table 1 with the two responsibilities in
\* thousandths, the draw and heads alone when the division raises, the
\* zeros it held when an earlier line raises.
BodyOf(i, heads, w) ==
    IF w.err # "none" THEN [err |-> w.err, row |-> ZeroRow]
    ELSE IF i > Rows THEN [err |-> "IndexError", row |-> ZeroRow]
    ELSE IF w.zero
    THEN [err |-> "ZeroDivisionError",
          row |-> [draw |-> i, heads |-> heads, lk_A |-> 0, lk_B |-> 0]]
    ELSE [err |-> "none",
          row |-> [draw  |-> i,
                   heads |-> heads,
                   lk_A  |-> w.lk_A,
                   lk_B  |-> w.lk_B]]

\* the outcomes of the loop body for observation i
Body(i, heads, thA, thB, n) ==
    {BodyOf(i, heads, w) : w \in Weights(heads, thA, thB, n)}

\* for i, heads in enumerate(data), from observation i on, table being jps
\* so far: the loop ends after the last observation or where the body
\* raises.  In each outcome err is what it raises, "none" if it ends; jps
\* is the table it leaves.
RECURSIVE Loop(_, _, _, _, _, _)
Loop(d, thA, thB, n, i, table) ==
    IF i > Len(d) THEN {[err |-> "none", jps |-> table]}
    ELSE UNION {IF i > Rows THEN {[err |-> o.err, jps |-> table]}
                ELSE IF o.err # "none"
                THEN {[err |-> o.err, jps |-> [table EXCEPT ![i] = o.row]]}
                ELSE Loop(d, thA, thB, n, i + 1, [table EXCEPT ![i] = o.row]) :
                o \in Body(i, d[i], thA, thB, n)}

\* jps = np.zeros((5, 4)), then the loop: the outcomes of the cell
EStepCell(d, thA, thB, n) ==
    Loop(d, thA, thB, n, 1, SubSeq([i \in 1..Rows |-> ZeroRow], 1, Rows))

\* what the loop can raise, "none" among them if it can end
EStepError(d, thA, thB, n) == {c.err : c \in EStepCell(d, thA, thB, n)}

\* a rounded value of Table 1 as the float the table holds
Stored(k) == IF k = NaN THEN FloatNaN ELSE FloatOf(RatOf(k, Unit))

\* Table 2 with each tails column weighted by its own class's responsibility
ExpectedRow_own(r, n) ==
    CHOOSE row \in
        {[draw      |-> r.draw,
          heads     |-> r.heads,
          lk_A      |-> r.lk_A,
          lk_B      |-> r.lk_B,
          E_heads_A |-> FloatMul(v[1], v[3]),
          E_tails_A |-> FloatMul(v[1], v[4]),
          E_heads_B |-> FloatMul(v[2], v[3]),
          E_tails_B |-> FloatMul(v[2], v[4])] :
         v \in {<<Stored(r.lk_A), Stored(r.lk_B),
                  FloatOfInt(r.heads), FloatOfInt(n - r.heads)>>}} : TRUE

\* Table 2 with only the tails column of coin B weighted by its own class
ExpectedRow_asym(r, n) ==
    CHOOSE row \in
        {[draw      |-> r.draw,
          heads     |-> r.heads,
          lk_A      |-> r.lk_A,
          lk_B      |-> r.lk_B,
          E_heads_A |-> FloatMul(v[1], v[3]),
          E_tails_A |-> FloatMul(FloatOneMinus(v[1]), v[4]),
          E_heads_B |-> FloatMul(v[2], v[3]),
          E_tails_B |-> FloatMul(v[2], v[4])] :
         v \in {<<Stored(r.lk_A), Stored(r.lk_B),
                  FloatOfInt(r.heads), FloatOfInt(n - r.heads)>>}} : TRUE

\* Table 2: the four expected-count columns added to a row of Table 1,
\* df['lk_A'] * df['x(#heads)'], (1 - df['lk_A']) * (10 - df['x(#heads)'])
\* and the same for B, each a float product.  The notebook writes the trial
\* count as the literal 10.
ExpectedRow(r, n) ==
    CHOOSE row \in
        {[draw      |-> r.draw,
          heads     |-> r.heads,
          lk_A      |-> r.lk_A,
          lk_B      |-> r.lk_B,
          E_heads_A |-> FloatMul(v[1], v[3]),
          E_tails_A |-> FloatMul(FloatOneMinus(v[1]), v[4]),
          E_heads_B |-> FloatMul(v[2], v[3]),
          E_tails_B |-> FloatMul(FloatOneMinus(v[2]), v[4])] :
         v \in {<<Stored(r.lk_A), Stored(r.lk_B),
                  FloatOfInt(r.heads), FloatOfInt(n - r.heads)>>}} : TRUE

ExpectedTable(table, n) ==
    SubSeq([i \in 1..Len(table) |-> ExpectedRow(table[i], n)], 1, Len(table))

\* a column sum that leaves out the last row
RECURSIVE ColumnSum_short(_, _, _, _)
ColumnSum_short(table, col, i, acc) ==
    IF i >= Len(table) THEN acc
    ELSE ColumnSum_short(table, col, i + 1, FloatAdd(acc, table[i][col]))

\* df[...].sum(): the float sum of one column, the rows added in order
\* from row i on to what the rows before it add up to, acc
RECURSIVE ColumnSum(_, _, _, _)
ColumnSum(table, col, i, acc) ==
    IF i > Len(table) THEN acc
    ELSE ColumnSum(table, col, i + 1, FloatAdd(acc, table[i][col]))

ColumnSums(table) ==
    [E_heads_A |-> ColumnSum(table, "E_heads_A", 2, table[1].E_heads_A),
     E_tails_A |-> ColumnSum(table, "E_tails_A", 2, table[1].E_tails_A),
     E_heads_B |-> ColumnSum(table, "E_heads_B", 2, table[1].E_heads_B),
     E_tails_B |-> ColumnSum(table, "E_tails_B", 2, table[1].E_tails_B)]

RECURSIVE GCD(_, _)
GCD(a, b) == IF b = 0 THEN a ELSE GCD(b, a % b)

Abs(k) == IF k < 0 THEN 0 - k ELSE k

\* The quotient p/q of two integers in lowest terms, the sign in the
\* numerator; a quotient by 0, which has no value, is kept as
\* [num |-> 0, den |-> 0].
Quot(p, q) ==
    IF q = 0 THEN [num |-> 0, den |-> 0]
    ELSE LET g == GCD(Abs(p), Abs(q))
             s == IF q < 0 THEN 0 - 1 ELSE 1
         IN  [num |-> s * (p \div g), den |-> s * (q \div g)]

\* a parameter has a value
Defined(th) == th.cls = "finite"

\* heads / (heads + tails) in floats; a quotient by 0.0 has no value (a
\* ZeroDivisionError on Python floats, nan or inf in numpy) and is kept as
\* nan
MStepQuot(heads, tails) ==
    CHOOSE th \in
        {IF t.cls # "finite" \/ IsZero(t) THEN FloatNaN ELSE FloatDiv(heads, t) :
         t \in {FloatAdd(heads, tails)}} : TRUE

\* theta = E[heads, z==class] / (E[heads, z==class] + E[tails, z==class])
MStepTheta_A(sums) == MStepQuot(sums.E_heads_A, sums.E_tails_A)

MStepTheta_B(sums) == MStepQuot(sums.E_heads_B, sums.E_tails_B)

MStepPair(sums) == <<MStepTheta_A(sums), MStepTheta_B(sums)>>

\* a non-negative quotient of integers as a rational of the arithmetic above
ToRat(th) == RatOf(th.num, th.den)

\* the float of a parameter written as a quotient of integers, a literal
\* such as 0.6
ToFloat(th) == FloatOf(ToRat(th))

---------------------------------------------------------------------------
(* Inputs.                                                                 *)

MaxN == 1
MaxLen == 1
Den == 4
max_iters == 3
EpsilonInv == 100

\* def compute_joint_pr(x, theta, n=10)
DefaultN == 10

\* data = [5, 9, 8, 4, 7]; theta_A, theta_B = 0.6, 0.5
NotebookData == <<5, 9, 8, 4, 7>>

NotebookTheta_A == Quot(6, 10)

NotebookTheta_B == Quot(5, 10)

GridThetas == {Quot(k, Den) : k \in 0..Den}

Observations(m) == UNION {[1..l -> 0..m] : l \in 1..MaxLen}

GridInputs ==
    UNION {[n : {m}, data : Observations(m),
            theta_A : GridThetas, theta_B : GridThetas] : m \in 1..MaxN}

NotebookThetas == {Quot(0, 1), NotebookTheta_B, NotebookTheta_A, Quot(1, 1)}

NotebookInputs ==
    [n : {DefaultN}, data : {NotebookData},
     theta_A : NotebookThetas, theta_B : NotebookThetas]

\* data that fill the five rows, of draws that are all tails or all heads
CornerThetas == {Quot(0, 1), Quot(1, 2), Quot(1, 1)}

FullInputs ==
    [n : {MaxN}, data : [1..Rows -> {0, MaxN}],
     theta_A : CornerThetas, theta_B : CornerThetas]

\* one observation more than the table has rows
LongInputs ==
    [n : {DefaultN}, data : {NotebookData \o <<6>>},
     theta_A : NotebookThetas, theta_B : NotebookThetas]

\* Parameters at which a float quotient of the E step is an exact half of a
\* thousandth with the notebook's n: for 7 heads lk_A/t is the float 0.8125.
TieTheta_A == Quot(42688462, 108540403)

TieTheta_B == Quot(3, 10)

TieInputs ==
    [n : {DefaultN}, data : {<<7>>, <<5, 7, 9>>},
     theta_A : {TieTheta_A}, theta_B : {TieTheta_B}]

Inputs ==
    GridInputs \cup NotebookInputs \cup FullInputs \cup LongInputs
        \cup TieInputs

\* epsilon of run, the float of 1/EpsilonInv
epsilon == FloatOf(RatOf(1, EpsilonInv))

---------------------------------------------------------------------------
(* The state machine: the notebook's cells in order, repeated by run.      *)

VARIABLES
    data,       \* the observed head counts
    n,          \* tosses per draw
    theta_A,    \* current parameter of coin A, a float
    theta_B,    \* current parameter of coin B, a float
    jps,        \* Table 1: draw, heads, lk_A, lk_B
    df,         \* Table 2: Table 1 and the four expected-count columns
    iters,      \* M steps performed
    prev_A,     \* theta_A before the last M step
    prev_B,     \* theta_B before the last M step
    pc,         \* "start", "e_done", "x_done", "m_done", "done", "error"
    err         \* "none" or what was raised or reported

vars == <<data, n, theta_A, theta_B, jps, df, iters, prev_A, prev_B, pc, err>>

Init ==
    \E in \in Inputs :
        /\ data = in.data
        /\ n = in.n
        /\ theta_A = ToFloat(in.theta_A)
        /\ theta_B = ToFloat(in.theta_B)
        /\ jps = <<>>
        /\ df = <<>>
        /\ iters = 0
        /\ prev_A = theta_A
        /\ prev_B = theta_B
        /\ pc = "start"
        /\ err = "none"

\* the E step cell, when the loop raises nothing: df = pd.DataFrame(data=jps)
\* is Table 1
EStep ==
    /\ pc = "start"
    /\ \E cell \in EStepCell(data, theta_A, theta_B, n) :
          /\ cell.err = "none"
          /\ jps' = cell.jps
    /\ df' = jps'
    /\ pc' = "e_done"
    /\ UNCHANGED <<data, n, theta_A, theta_B, iters, prev_A, prev_B, err>>

\* the E step cell, when the loop raises at some draw: the loop stops there
\* and the cell's remaining lines, which build df, are not run
EStepRaises ==
    /\ pc = "start"
    /\ \E cell \in EStepCell(data, theta_A, theta_B, n) :
          /\ cell.err # "none"
          /\ jps' = cell.jps
          /\ err' = cell.err
    /\ pc' = "error"
    /\ UNCHANGED <<data, n, theta_A, theta_B, df, iters, prev_A, prev_B>>

\* the expected heads/tails cell: four columns added to df
Expectation ==
    /\ pc = "e_done"
    /\ df' = ExpectedTable(df, n)
    /\ pc' = "x_done"
    /\ UNCHANGED <<data, n, theta_A, theta_B, jps, iters, prev_A, prev_B, err>>

\* the M step on the column sums: both quotients have a value
MStep ==
    /\ pc = "x_done"
    /\ \E th \in {MStepPair(ColumnSums(df))} :
        /\ Defined(th[1]) /\ Defined(th[2])
        /\ theta_A' = th[1]
        /\ theta_B' = th[2]
    /\ prev_A' = theta_A
    /\ prev_B' = theta_B
    /\ iters' = iters + 1
    /\ pc' = "m_done"
    /\ UNCHANGED <<data, n, jps, df, err>>

\* the M step when a quotient is 0/0: it has no value (nan in numpy, a
\* ZeroDivisionError on Python floats) and the iteration cannot go on
MStepUndefined ==
    /\ pc = "x_done"
    /\ \E th \in {MStepPair(ColumnSums(df))} :
        /\ ~(Defined(th[1]) /\ Defined(th[2]))
        /\ theta_A' = th[1]
        /\ theta_B' = th[2]
    /\ prev_A' = theta_A
    /\ prev_B' = theta_B
    /\ iters' = iters + 1
    /\ pc' = "error"
    /\ err' = "UndefinedQuotient"
    /\ UNCHANGED <<data, n, jps, df>>

\* abs(a - pa) < eps on floats
Below(a, pa, eps) ==
    \A d \in {FloatSub(a, pa)} :
        d.cls = "finite" /\ RatCmp(FloatRat(d), FloatRat(eps)) < 0

\* max(|a - pa|, |b - pb|) < eps
Close(a, pa, b, pb, eps) == Below(a, pa, eps) /\ Below(b, pb, eps)

\* max(|delta theta_A|, |delta theta_B|) < epsilon
Converged == Close(theta_A, prev_A, theta_B, prev_B, epsilon)

\* a cap that lets one more iteration through
CapReached_late == iters > max_iters

CapReached == iters >= max_iters

\* run: stop on convergence
StopConverged ==
    /\ pc = "m_done"
    /\ Converged
    /\ pc' = "done"
    /\ UNCHANGED <<data, n, theta_A, theta_B, jps, df, iters, prev_A, prev_B, err>>

\* run: stop at the iteration cap, reporting NonConvergence
StopCap ==
    /\ pc = "m_done"
    /\ ~Converged
    /\ CapReached
    /\ pc' = "done"
    /\ err' = "NonConvergence"
    /\ UNCHANGED <<data, n, theta_A, theta_B, jps, df, iters, prev_A, prev_B>>

\* run: restart the EM process with the new parameters
Restart ==
    /\ pc = "m_done"
    /\ ~Converged
    /\ ~CapReached
    /\ pc' = "start"
    /\ UNCHANGED <<data, n, theta_A, theta_B, jps, df, iters, prev_A, prev_B, err>>

Next ==
    \/ EStep
    \/ EStepRaises
    \/ Expectation
    \/ MStep
    \/ MStepUndefined
    \/ StopConverged
    \/ StopCap
    \/ Restart

Spec == Init /\ [][Next]_vars


---------------------------------------------------------------------------
(* Properties.                                                             *)

\* the M step cells on Table 1: expected counts, column sums, quotients
MStepOf(table, m) == MStepPair(ColumnSums(ExpectedTable(table, m)))

\* The E step, expected counts and M step cells in a row from parameters a
\* and b: the pairs they can give.  When the E step raises there is no df
\* for the cells after it: no pair, <<>>.
OneIteration(d, a, b, m) ==
    {IF cell.err # "none" THEN <<>> ELSE MStepOf(cell.jps, m) :
     cell \in EStepCell(d, a, b, m)}

\* what the E step's loop can raise
EStepErrors == {"ZeroDivisionError", "OverflowError", "IndexError"}

\* the E step cell has raised
EStepRaised == pc = "error" /\ err \in EStepErrors

\* the E step cell has just run: theta_A and theta_B are still its arguments
EStepRan == pc = "e_done" \/ EStepRaised

\* an M step has just run: prev_A and prev_B are its starting parameters
MStepRan == pc = "m_done" \/ (pc = "error" /\ err = "UndefinedQuotient")

\* a + b on rationals
RatAdd(a, b) ==
    [num |-> BigAdd(BigMul(a.num, b.den), BigMul(b.num, a.den)),
     den |-> BigMul(a.den, b.den)]

\* |a - b| of two finite floats, exactly
Distance(a, b) ==
    IF a.neg = b.neg \/ IsZero(a) \/ IsZero(b)
    THEN RatAbsDiff(FloatRat(a), FloatRat(b))
    ELSE RatAdd(FloatRat(a), FloatRat(b))

\* what float rounding may move a sum or a quotient of the notebook by is
\* far below 1/DriftInv^2
DriftInv == 10^6

Drift == [num |-> <<1>>, den |-> BigMul(BigOf(DriftInv), BigOf(DriftInv))]

\* the float f is the non-negative rational r but for float rounding
Near(f, r) ==
    /\ f.cls = "finite"
    /\ r.den # Zero
    /\ IF f.neg /\ ~IsZero(f)
       THEN RatCmp(RatAdd(FloatRat(f), r), Drift) <= 0
       ELSE RatCmp(RatAbsDiff(FloatRat(f), r), Drift) <= 0

\* two parameters are one value but for float rounding, or both have none
Alike(a, b) ==
    IF Defined(a) /\ Defined(b) THEN RatCmp(Distance(a, b), Drift) <= 0
    ELSE a = b

InUnitInterval(th) ==
    /\ Defined(th)
    /\ ~th.neg \/ IsZero(th)
    /\ RatCmp(FloatRat(th), RatOf(1, 1)) <= 0

\* the run started from the notebook's data, n and parameters
NotebookRun ==
    /\ data = NotebookData
    /\ n = DefaultN
    /\ IF iters = 0
       THEN theta_A = ToFloat(NotebookTheta_A) /\ theta_B = ToFloat(NotebookTheta_B)
       ELSE /\ iters = 1
            /\ prev_A = ToFloat(NotebookTheta_A)
            /\ prev_B = ToFloat(NotebookTheta_B)

Column(table, col) == [i \in 1..Len(table) |-> table[i][col]]

\* C1: the two responsibilities the E step records for an observation
\* (lk_A/t and lk_B/t, each rounded to 3 decimals) sum to 1.
C1_ResponsibilitiesSumToOne ==
    pc = "e_done" =>
        \A i \in 1..Len(data) : jps[i].lk_A + jps[i].lk_B = Unit

\* C2: both parameters output by the M step are defined and lie in [0,1].
C2_MStepInUnitInterval ==
    MStepRan => InUnitInterval(theta_A) /\ InUnitInterval(theta_B)

\* the responsibility-weighted heads over the responsibility-weighted
\* trials of one class, in exact arithmetic on the table's thousandths:
\* sum(resp * heads) / sum(resp * n)
RECURSIVE WeightedSum(_, _, _, _)
WeightedSum(table, col, w, i) ==
    IF i > Len(table) THEN 0
    ELSE table[i][col] * w[i] + WeightedSum(table, col, w, i + 1)

WeightedFraction(table, col, m) ==
    Quot(WeightedSum(table, col, [i \in 1..Len(table) |-> table[i].heads], 1),
         WeightedSum(table, col, [i \in 1..Len(table) |-> m], 1))

\* C3: the M step's new parameter of each class equals
\* sum(resp_class * heads) / sum(resp_class * n), but for float rounding.
C3_WeightedFraction ==
    pc = "m_done" =>
        /\ Near(theta_A, ToRat(WeightedFraction(df, "lk_A", n)))
        /\ Near(theta_B, ToRat(WeightedFraction(df, "lk_B", n)))

\* C4: with observations [5,9,8,4,7], n = 10, theta_A = 0.6, theta_B = 0.5,
\* one E step yields class-A responsibilities 0.449, 0.805, 0.733, 0.352,
\* 0.647 and class-B responsibilities 0.551, 0.195, 0.267, 0.648, 0.353.
C4_NotebookEStep ==
    (NotebookRun /\ iters = 0 /\ EStepRan) =>
        /\ pc = "e_done"
        /\ Column(jps, "lk_A") = <<449, 805, 733, 352, 647>>
        /\ Column(jps, "lk_B") = <<551, 195, 267, 648, 353>>

C4_Witness ==
    /\ NotebookRun /\ iters = 0 /\ pc = "e_done"
    /\ Column(jps, "heads") = NotebookData
    /\ jps[2].lk_A = 805 /\ jps[2].lk_B = 195

\* C5: one M step from the example's responsibilities yields theta_A = 0.716
\* and theta_B = 0.577 (3 decimals), from expected counts heads_A = 21.291,
\* tails_A = 8.431, heads_B = 11.709, tails_B = 8.569 (the float column
\* sums are these values but for float rounding).
C5_NotebookMStep ==
    (NotebookRun /\ iters = 1 /\ MStepRan) =>
        /\ pc = "m_done"
        /\ Column(df, "lk_A") = <<449, 805, 733, 352, 647>>
        /\ \A sums \in {ColumnSums(df)} :
              /\ Near(sums.E_heads_A, RatOf(21291, Unit))
              /\ Near(sums.E_tails_A, RatOf(8431, Unit))
              /\ Near(sums.E_heads_B, RatOf(11709, Unit))
              /\ Near(sums.E_tails_B, RatOf(8569, Unit))
              /\ theta_A = MStepTheta_A(sums)
              /\ theta_B = MStepTheta_B(sums)
        /\ round(FloatRat(theta_A), NDigits) = 716
        /\ round(FloatRat(theta_B), NDigits) = 577

C5_Witness ==
    /\ NotebookRun /\ iters = 1 /\ pc = "m_done"
    /\ Near(theta_A, ToRat(Quot(21291, 21291 + 8431)))
    /\ Near(theta_B, ToRat(Quot(11709, 11709 + 8569)))

\* the head count h has non-zero likelihood under parameter th
Possible(h, th, m) ==
    /\ (IsZero(th) => h = 0)
    /\ (th = FloatOne => h = m)

\* the table holds a row of responsibilities 0.5 and 0.5 for every
\* observation
AllHalf(table) ==
    \A i \in 1..Len(data) :
        /\ i <= Len(table)
        /\ table[i].draw = i /\ table[i].heads = data[i]
        /\ table[i].lk_A = 500 /\ table[i].lk_B = 500

\* C6: for every theta in [0,1], the E step with theta_A = theta_B = theta
\* produces responsibilities 0.5 and 0.5 on every observation.
C6_IdenticalParameters ==
    (EStepRan /\ theta_A = theta_B) => (pc = "e_done" /\ AllHalf(jps))

Terminated == pc \in {"done", "error"}

\* the steps run can still take: four per iteration not yet counted, and
\* the position within the current one
StepsLeft ==
    4 * (max_iters - iters)
      + (CASE pc = "start" -> 4
           [] pc = "e_done" -> 3
           [] pc = "x_done" -> 2
           [] pc = "m_done" -> 5
           [] OTHER -> 0)

\* C7: run alternates E step and M step and always terminates (every step
\* lowers a bound on the steps left, which is never negative); it stops at
\* the first iteration after which max(|delta|) < epsilon, otherwise when
\* the iteration count reaches max_iters; the returned count never exceeds
\* max_iters and the returned pair is the result of the last M step.
C7_RunTerminates ==
    /\ [](iters <= max_iters /\ StepsLeft >= 0)
    /\ [][StepsLeft' < StepsLeft]_vars
    /\ [](pc = "done" =>
            /\ iters >= 1
            /\ Converged \/ iters = max_iters
            /\ <<theta_A, theta_B>> = MStepPair(ColumnSums(df)))
    /\ [][(pc = "m_done" /\ Converged) => pc' = "done"]_vars
    /\ [][(pc = "m_done" /\ ~Converged) =>
            pc' = IF iters = max_iters THEN "done" ELSE "start"]_vars
    /\ [][/\ pc = "start" => pc' \in {"e_done", "error"}
          /\ pc = "e_done" => pc' = "x_done"
          /\ pc = "x_done" => pc' \in {"m_done", "error"}
          /\ Terminated => FALSE]_vars

C7_Witness ==
    /\ pc = "done" /\ Converged
    /\ 1 < iters /\ iters < max_iters
    /\ theta_A # theta_B

\* the pairs of a set, each turned around
Swapped(pairs) == {IF pair = <<>> THEN pair ELSE <<pair[2], pair[1]>> : pair \in pairs}

\* C8: if E step then M step from (theta_A, theta_B) = (a, b) yields
\* (a', b'), then from (b, a) it yields (b', a'): the cells started from
\* (b, a) give the pairs they give from (a, b) turned around, the pair of
\* this run among them, and raise what they raise from (a, b).
C8_LabelSwitching ==
    /\ MStepRan =>
        \A turned \in {OneIteration(data, prev_B, prev_A, n)} :
            /\ <<theta_B, theta_A>> \in turned
            /\ turned = Swapped(OneIteration(data, prev_A, prev_B, n))
    /\ EStepRaised =>
        \A turned \in {EStepError(data, theta_B, theta_A, n)} :
            /\ err \in turned
            /\ turned = EStepError(data, theta_A, theta_B, n)

C8_Witness ==
    /\ pc = "m_done" /\ iters = 2
    /\ prev_A # prev_B /\ theta_A # theta_B
    /\ n > 1 /\ Len(data) > 1

Permutations(k) ==
    {p \in [1..k -> 1..k] : \A i, j \in 1..k : p[i] = p[j] => i = j}

\* The observations taken in the order p, for the run that is in the state:
\* what the loop body gives for observation i when it is the j-th of the
\* loop, cells[i][j], has to hold the row the run has for i, moved to j.
MovedRow(i, j) == [jps[i] EXCEPT !.draw = j]

LoopCells ==
    SubSeq([i \in 1..Len(data) |->
               CHOOSE r \in {SubSeq([j \in 1..Len(data) |->
                                        {BodyOf(j, data[i], w) : w \in ws}],
                                    1, Len(data)) :
                             ws \in {Weights(data[i], prev_A, prev_B, n)}} : TRUE],
           1, Len(data))

\* the rows of Table 2 for observation i as the j-th of the loop
MovedExpected ==
    SubSeq([i \in 1..Len(data) |->
               SubSeq([j \in 1..Len(data) |-> ExpectedRow(MovedRow(i, j), n)],
                      1, Len(data))],
           1, Len(data))

\* Table 2 of the observations in the order p: below the data the rows of
\* zeros and their expected counts, as in df
ReorderedTables(x) ==
    {SubSeq([j \in 1..Rows |-> IF j <= Len(data) THEN x[p[j]][j] ELSE df[j]],
            1, Rows) :
     p \in Permutations(Len(data))}

\* each observation has the same responsibilities wherever it stands in the
\* sequence, and Table 2 holds its expected counts there
SameResponsibilities(cells, x) ==
    \A i, j \in 1..Len(data) :
        /\ [err |-> "none", row |-> MovedRow(i, j)] \in cells[i][j]
        /\ x[i][j] = [df[i] EXCEPT !.draw = j]

\* C9 as the specification states it: for every permutation of the
\* observation sequence the M step yields the same (theta_A, theta_B) and
\* each observation gets the same responsibilities, whatever order the
\* per-observation contributions are accumulated in.
C9_OrderIndependent ==
    MStepRan =>
        \A x \in {MovedExpected} :
            /\ SameResponsibilities(LoopCells, x)
            /\ \A table \in ReorderedTables(x) :
                  MStepPair(ColumnSums(table)) = <<theta_A, theta_B>>

\* C9, amended: for every permutation of the observation sequence each
\* observation gets the same responsibilities and expected counts, and the
\* M step yields the same (theta_A, theta_B) but for float rounding: the
\* column sums add the rows in the order of the sequence.
C9_OrderDrift ==
    MStepRan =>
        \A x \in {MovedExpected} :
            /\ SameResponsibilities(LoopCells, x)
            /\ \A table \in ReorderedTables(x) :
                  \A pair \in {MStepPair(ColumnSums(table))} :
                      Alike(pair[1], theta_A) /\ Alike(pair[2], theta_B)

\* some order of the observations moves a parameter of the M step
C9_Witness ==
    /\ pc = "m_done"
    /\ Len(data) > 2
    /\ \E table \in ReorderedTables(MovedExpected) :
          MStepPair(ColumnSums(table)) # <<theta_A, theta_B>>

\* both likelihoods of head count h are zero
BothZero(h, thA, thB, m) == ~Possible(h, thA, m) /\ ~Possible(h, thB, m)

\* C10: when both likelihoods of some observation are zero (theta_A and
\* theta_B each 0 or 1, the head count impossible under both) the E step
\* produces no responsibility pair for it and raises; in every other case
\* it produces the responsibilities of every observation without error.
C10_DegenerateParameter ==
    EStepRan =>
        IF \E i \in 1..Len(data) : BothZero(data[i], theta_A, theta_B, n)
        THEN /\ pc = "error" /\ err = "ZeroDivisionError"
             /\ \A i \in 1..Len(data) :
                    (i <= Rows /\ BothZero(data[i], theta_A, theta_B, n))
                        => (jps[i].lk_A = 0 /\ jps[i].lk_B = 0)
        ELSE /\ pc = "e_done" /\ err = "none"
             /\ \A i \in 1..Len(data) :
                    /\ i <= Len(jps)
                    /\ jps[i].draw = i /\ jps[i].heads = data[i]
                    /\ jps[i].lk_A \in 0..Unit /\ jps[i].lk_B \in 0..Unit

---------------------------------------------------------------------------
(* Inputs outside the domain: a head count outside 0..n or n <= 0.  The    *)
(* notebook's cells are run once on them, in order.                        *)

\* the input is in the domain of the estimator
ValidInput(d, m) == m > 0 /\ \A i \in 1..Len(d) : d[i] \in 0..m

InvalidInputs ==
    {in \in UNION {[n : {m},
                    data : UNION {[1..l -> (0 - 1)..(MaxN + 1)] : l \in 1..MaxLen},
                    theta_A : GridThetas, theta_B : GridThetas] :
                   m \in (0 - 1)..MaxN} :
        ~ValidInput(in.data, in.n)}

InvalidInit ==
    \E in \in InvalidInputs :
        /\ data = in.data
        /\ n = in.n
        /\ theta_A = ToFloat(in.theta_A)
        /\ theta_B = ToFloat(in.theta_B)
        /\ jps = <<>>
        /\ df = <<>>
        /\ iters = 0
        /\ prev_A = theta_A
        /\ prev_B = theta_B
        /\ pc = "start"
        /\ err = "none"

\* the notebook's cells, once
NotebookPass ==
    \/ EStep
    \/ EStepRaises
    \/ Expectation
    \/ MStep
    \/ MStepUndefined

InvalidSpec == InvalidInit /\ [][NotebookPass]_vars

\* C11: on an input with a head count outside [0,n] or with n <= 0 the only
\* step taken reports InvalidInput, and no likelihood, responsibility or
\* parameter estimate is computed: Table 1 holds no filled row, Table 2 is
\* not built and no M step is performed.
C11_InvalidInputReported ==
    (~ValidInput(data, n) /\ pc # "start") =>
        /\ pc = "error"
        /\ err = "InvalidInput"
        /\ \A i \in 1..Len(jps) : jps[i] = ZeroRow
        /\ df = <<>>
        /\ iters = 0

---------------------------------------------------------------------------
(* The run of the worked example: the notebook's data and parameters, the  *)
(* parameters also moved by a few steps of 1/PerturbationInv, iterated     *)
(* with epsilon = 1e-6 and max_iters = 1000.                               *)

Perturb == 1

PerturbationInv == 10^3

example_max_iters == 10^3

ExampleEpsilonInv == 10^6

example_epsilon == FloatOf(RatOf(1, ExampleEpsilonInv))

\* theta moved by k steps
Perturbed(th, k) ==
    Quot(th.num * PerturbationInv + k * th.den, th.den * PerturbationInv)

ExampleInputs ==
    [n : {DefaultN}, data : {NotebookData},
     theta_A : {Perturbed(NotebookTheta_A, k) : k \in (0 - Perturb)..Perturb},
     theta_B : {Perturbed(NotebookTheta_B, k) : k \in (0 - Perturb)..Perturb}]

ExampleInit ==
    \E in \in ExampleInputs :
        /\ data = in.data
        /\ n = in.n
        /\ theta_A = ToFloat(in.theta_A)
        /\ theta_B = ToFloat(in.theta_B)
        /\ jps = <<>>
        /\ df = <<>>
        /\ iters = 0
        /\ prev_A = theta_A
        /\ prev_B = theta_B
        /\ pc = "start"
        /\ err = "none"

ExampleConverged == Close(theta_A, prev_A, theta_B, prev_B, example_epsilon)

\* a cap that stops the run after a few iterations
ExampleCapReached_few == iters >= 5

ExampleCapReached == iters >= example_max_iters

\* run: stop on convergence
ExampleStopConverged ==
    /\ pc = "m_done"
    /\ ExampleConverged
    /\ pc' = "done"
    /\ UNCHANGED <<data, n, theta_A, theta_B, jps, df, iters, prev_A, prev_B, err>>

\* run: restart the EM process with the new parameters
ExampleRestart ==
    /\ pc = "m_done"
    /\ ~ExampleConverged
    /\ ~ExampleCapReached
    /\ pc' = "start"
    /\ UNCHANGED <<data, n, theta_A, theta_B, jps, df, iters, prev_A, prev_B, err>>

\* The steps the example's run takes.  The E step that raises, the M step
\* without a value and the stop at the cap are left out: C12 states that
\* their guards hold in no state of this run.
ExampleNext ==
    \/ EStep
    \/ Expectation
    \/ MStep
    \/ ExampleStopConverged
    \/ ExampleRestart

ExampleSpec == ExampleInit /\ [][ExampleNext]_vars

\* run(observations, theta_A, theta_B, n, max_iters, epsilon) as the pairs
\* it can return, k iterations already counted; <<>> when a step raises or
\* an M step has no value
RECURSIVE run(_, _, _, _, _)
run(d, a, b, m, k) ==
    UNION {IF next = <<>> THEN {<<>>}
           ELSE IF ~Defined(next[1]) \/ ~Defined(next[2]) THEN {<<>>}
           ELSE IF Close(next[1], a, next[2], b, example_epsilon)
              \/ k + 1 >= example_max_iters
           THEN {next}
           ELSE run(d, next[1], next[2], m, k + 1) :
           next \in OneIteration(d, a, b, m)}

\* C12: the run of the example takes every step without an error, meets
\* max(|delta|) < epsilon strictly before the iteration cap, and returns a
\* pair that one more iteration leaves unchanged and that is the pair the
\* run from the unperturbed parameters returns.
C12_ExampleConverges ==
    /\ iters < example_max_iters
    /\ err = "none"
    /\ pc = "start" => EStepError(data, theta_A, theta_B, n) = {"none"}
    /\ pc = "x_done" =>
          \A th \in {MStepPair(ColumnSums(df))} : Defined(th[1]) /\ Defined(th[2])
    /\ pc = "m_done" => ExampleConverged \/ ~ExampleCapReached
    /\ pc = "done" =>
          /\ ExampleConverged
          /\ OneIteration(data, theta_A, theta_B, n) = {<<theta_A, theta_B>>}
          /\ run(data, ToFloat(NotebookTheta_A), ToFloat(NotebookTheta_B), n, 0)
                = {<<theta_A, theta_B>>}

\* a perturbed run has stopped: the unperturbed one takes 11 iterations
C12_Witness ==
    /\ pc = "done"
    /\ ExampleConverged
    /\ iters > 11

\* the expected-count cell has run: df is Table 2
ExpectationRan ==
    pc \in {"x_done", "m_done", "done"} \/ (pc = "error" /\ err = "UndefinedQuotient")

\* C13: in every row of Table 2 the two expected head counts add up to the
\* row's heads and the two expected tail counts to its tails, so the four
\* column sums add up to the number of tosses, n for each draw (each but
\* for float rounding).
C13_CountsConserved ==
    ExpectationRan =>
        /\ \A i \in 1..Len(data) :
              /\ Near(FloatAdd(df[i].E_heads_A, df[i].E_heads_B),
                      RatOf(df[i].heads, 1))
              /\ Near(FloatAdd(df[i].E_tails_A, df[i].E_tails_B),
                      RatOf(n - df[i].heads, 1))
        /\ \A sums \in {ColumnSums(df)} :
              Near(FloatAdd(FloatAdd(sums.E_heads_A, sums.E_heads_B),
                            FloatAdd(sums.E_tails_A, sums.E_tails_B)),
                   RatOf(n * Len(data), 1))

=============================================================================
